---- MODULE Spec2Model ----
(***************************************************************************)
(* Model of the MySQL binlog client connection (package binlog): the wire  *)
(* codec, the packet framer (Flush/addHeader, getPacketHeader/readBytes),  *)
(* the packet dispatcher (readPacket) and the connection bring-up sequence *)
(* of Driver.Open.                                                         *)
(*                                                                         *)
(* Bytes are naturals 0..255, byte strings are sequences of bytes.  A Go   *)
(* `error` is a record [kind, code, msg]; kind "nil" is the nil error.     *)
(* uint64 values stay far below 2^31 in every reachable state, except the  *)
(* wrapped subtraction of getRemainingBytes, which is kept as the negative *)
(* number d and stands for 2^64 + d.                                       *)
(***************************************************************************)
EXTENDS Integers, Sequences, FiniteSets, TLC

\* ---------------------------------------------------------------- bounds
\* Flush is not taken once the sequence counter has reached MaxSeq.
MaxSeq == 258
\* The accumulator takes no further write once it holds MaxBuf bytes (Framer).
MaxBuf == 1
\* Longest error message of a scripted server Error packet.
MaxMsgLen == 2

\* ------------------------------------------------------- program constants
NullByte == 0
TypeNullTerminatedString == 0
TypeFixedString == 1
TypeFixedInt == 2
TypeLenEncInt == 3
TypeRestOfPacketString == 4
TypeLenEncString == 5
MaxUint08 == 255
MaxUint16 == 65535
MaxUint24 == 16777215
StatusOK == 0
StatusEOF == 254
StatusErr == 255
StatusAuth == 1
SHA2_REQUEST_PUBLIC_KEY == 2
SHA2_FAST_AUTH_SUCCESS == 3
SHA2_PERFORM_FULL_AUTHENTICATION == 4

\* ----------------------------------------------------------------- state
VARIABLES
    Config,         \* Conn.Config: [SSL, User, Pass]
    Handshake,      \* Conn.Handshake: [AuthPluginName]
    HandshakeResponse, \* Conn.HandshakeResponse: [set, ClientFlag]
    curConn,        \* Conn.curConn: "none", "tcp" or "tls"
    txErr,          \* the sticky write error of Conn.buffer's bufio.Writer
    rx,             \* bytes the transport will still deliver to the scanner
    rxEnd,          \* what the transport does when rx is used up: "eof" | "err"
    wire,           \* frames written to the transport: [conn, bytes]
    sequenceID,     \* Conn.sequenceID
    writeBuf,       \* Conn.writeBuf: [nil, b]
    err,            \* Conn.err, the held encode error
    packetHeader,   \* Conn.packetHeader: [set, Length, SequenceID, Status]
    scanPos,        \* Conn.scanPos
    lastIn,         \* bytes taken from the transport by the current readPacket
    rdCount,        \* packet headers read from the transport so far
    res,            \* the packet returned by the last readPacket
    mdData,         \* AuthMoreDataPacket.Data of the last readPacket ("-" if none)
    ret,            \* the error returned by the last call (Flush, readPacket, ...)
    pc,             \* position in Driver.Open, or "api" for a bare Conn
    result,         \* "running" | "ok" | "error" | "panic" | "hang"
    op,             \* "Flush" when the last call on a bare Conn was Flush, else "-"
    nSent,          \* packets framed by Flush since construction or the last reset
    wasReset,       \* the sequence counter has been reset to 0 explicitly
    call            \* the last call of a codec function on its own: [fn, ...]

vars == <<Config, Handshake, HandshakeResponse, curConn, txErr, rx, rxEnd, wire,
          sequenceID, writeBuf, err, packetHeader, scanPos, lastIn, rdCount,
          res, mdData, ret, pc, result, op, nSent, wasReset, call>>

\* --------------------------------------------------------------- helpers
Byte == 0..255

RECURSIVE Pow256(_)
Pow256(n) == IF n = 0 THEN 1 ELSE 256 * Pow256(n - 1)

Take(s, n) == SubSeq(s, 1, IF n < Len(s) THEN n ELSE Len(s))
Drop(s, n) == SubSeq(s, n + 1, Len(s))
Zeros(n) == [i \in 1..n |-> NullByte]

\* Little-endian value of a byte string (binary.LittleEndian.UintNN).
RECURSIVE LEValue(_)
LEValue(b) == IF b = <<>> THEN 0 ELSE b[1] + 256 * LEValue(Tail(b))

NoErr == [kind |-> "nil", code |-> 0, msg |-> <<>>]
EncErr == [kind |-> "encode", code |-> 0, msg |-> <<>>]
TxErr == [kind |-> "transport", code |-> 0, msg |-> <<>>]
HandshakeErr == [kind |-> "handshake", code |-> 0, msg |-> <<>>]
DialErr == [kind |-> "dial", code |-> 0, msg |-> <<>>]
ServerErr(code, msg) == [kind |-> "server", code |-> code, msg |-> msg]

\* No codec function has been called on its own.
NoCall == [fn |-> "-"]

NilBuf == [nil |-> TRUE, b |-> <<>>]
Buf(b) == [nil |-> FALSE, b |-> b]

NoHeader == [set |-> FALSE, Length |-> 0, SequenceID |-> 0, Status |-> 0]
NilRes == [kind |-> "nil", Header |-> 0, AffectedRows |-> 0, LastInsertID |-> 0,
           StatusFlags |-> 0, Warnings |-> 0, Info |-> <<>>, ErrorCode |-> 0,
           SQLStateMarker |-> <<>>, SQLState |-> <<>>, ErrorMessage |-> <<>>]

\* ------------------------------------------------------------ wire codec
\* padBytes: b padded with null bytes up to l bytes.
padBytes(l, b) == IF Len(b) >= l THEN b ELSE b \o Zeros(l - Len(b))

\* decFixedInt reading every width into a uint16.
decFixedIntOf_16bit(b, l) == LEValue(Take(padBytes(2, b), 2))

\* decFixedInt applied to the bytes b that readBytes(l) returned.
decFixedIntOf(b, l) ==
    IF l <= 2 THEN LEValue(Take(padBytes(2, b), 2))
    ELSE IF l <= 4 THEN LEValue(Take(padBytes(4, b), 4))
    ELSE IF l <= 8 THEN LEValue(Take(padBytes(8, b), 8))
    ELSE 0

\* encFixedLenInt without the cut to single bytes.
encFixedLenInt_NoTruncation(v, l) ==
    [i \in 1..l |-> IF i > 4 THEN 0 ELSE v \div Pow256(i - 1)]

\* encFixedLenInt: the low l bytes of v, little-endian.  v is below 2^31, so
\* its bytes 5 to 8 are 0.
encFixedLenInt(v, l) ==
    [i \in 1..l |-> IF i > 4 THEN 0 ELSE (v \div Pow256(i - 1)) % 256]

\* encLenEncInt, for v below 2^31.
encLenEncInt(v) ==
    LET b == IF v < MaxUint08 THEN encFixedLenInt(v % 65536, 1)
             ELSE IF v < MaxUint16 THEN encFixedLenInt(v % 65536, 2)
             ELSE IF v < MaxUint24 THEN encFixedLenInt(v, 3)
             ELSE encFixedLenInt(v, 8) \o <<0>>
        prefix == IF v < MaxUint08 THEN 0
                  ELSE IF v < MaxUint16 THEN 252
                  ELSE IF v < MaxUint24 THEN 253
                  ELSE 254
    IN  IF Len(b) > 1 THEN <<prefix>> \o b ELSE b

encNullTerminatedString(v) == v \o <<NullByte>>
encFixedString(v) == v
encLenEncString(v) == encLenEncInt(Len(v)) \o encFixedString(v)
encRestOfPacketString(v) == encFixedString(v)

\* A struct of boolean fields is the sequence of its fields in declaration
\* order; field i of the code (from 0) is element i + 1.
\* Byte j (from 0) of the uint64 mask m that structToBitmask builds: bit i of
\* m is set when field i is true, and a shift by 64 or more gives 0.
maskByte(s, j) ==
    LET bit(r) == IF 8 * j + r + 1 <= Len(s) /\ s[8 * j + r + 1] THEN 2^r ELSE 0
    IN  bit(0) + bit(1) + bit(2) + bit(3) + bit(4) + bit(5) + bit(6) + bit(7)

\* structToBitmask that never returns more than 32 bits.
structToBitmask_NoWide(s) ==
    LET l == (Len(s) + 7) \div 8
        b == [j \in 1..8 |-> maskByte(s, j - 1)]
    IN  IF l > 2 THEN Take(b, 4)
        ELSE IF l > 1 THEN Take(b, 2)
        ELSE Take(b, 1)

\* structToBitmask: the mask little-endian, cut to 8, 4, 2 or 1 bytes.
structToBitmask(s) ==
    LET l == (Len(s) + 7) \div 8
        b == [j \in 1..8 |-> maskByte(s, j - 1)]
    IN  IF l > 4 THEN Take(b, 8)
        ELSE IF l > 2 THEN Take(b, 4)
        ELSE IF l > 1 THEN Take(b, 2)
        ELSE Take(b, 1)

\* Bit i (from 0) of the little-endian bytes b.
BitOf(b, i) == (b[(i \div 8) + 1] \div 2^(i % 8)) % 2 = 1

\* bitmaskToStruct for a struct of k fields: [st, fields].  The bytes are
\* read as a uint64, uint32, uint16 or as b[0], by their number; reading
\* more bytes than there are panics, and a flag beyond the width read is 0.
bitmaskToStruct(b, k) ==
    LET l == Len(b)
        w == IF l > 4 THEN 8 ELSE IF l > 2 THEN 4 ELSE IF l > 1 THEN 2 ELSE 1
    IN  IF l < w
        THEN [st |-> "panic", fields |-> <<>>]
        ELSE [st |-> "ok",
              fields |-> [i \in 1..k |-> (i - 1) < 8 * w /\ BitOf(b, i - 1)]]

\* ---------------------------------------------------------- write side
\* The write-side fields of the connection, threaded through the operators
\* below; crashed marks a nil-pointer panic.
W == [sequenceID |-> sequenceID, writeBuf |-> writeBuf, err |-> err,
      wire |-> wire, txErr |-> txErr, curConn |-> curConn, crashed |-> FALSE]

setupWriteBuffer(w) ==
    IF w.writeBuf.nil THEN [w EXCEPT !.writeBuf = Buf(<<>>)] ELSE w

\* c.writeBuf.Write(b) and the `if err != nil { c.err = err }` after it.
\* werr is the error result of Write; a nil writeBuf is a nil dereference.
bufWrite(w, b, werr) ==
    IF w.crashed THEN w
    ELSE IF w.writeBuf.nil THEN [w EXCEPT !.crashed = TRUE]
    ELSE IF werr THEN [w EXCEPT !.err = EncErr]
    ELSE [w EXCEPT !.writeBuf = Buf(w.writeBuf.b \o b)]

putBytes(w, v, werr) == bufWrite(setupWriteBuffer(w), v, werr)

putNullBytes(w, n, werr) == bufWrite(setupWriteBuffer(w), Zeros(n), werr)

putInt(w, t, v, l, werr) ==
    LET b == IF t = TypeFixedInt THEN encFixedLenInt(v, l)
             ELSE IF t = TypeLenEncInt THEN encLenEncInt(v)
             ELSE <<>>
    IN  bufWrite(setupWriteBuffer(w), b, werr)

putString(w, t, v, werr) ==
    LET b == IF t = TypeFixedString THEN encFixedString(v)
             ELSE IF t = TypeLenEncString THEN encLenEncString(v)
             ELSE IF t = TypeNullTerminatedString THEN encNullTerminatedString(v)
             ELSE IF t = TypeRestOfPacketString THEN encRestOfPacketString(v)
             ELSE <<>>
    IN  bufWrite(w, b, werr)

\* addHeader that leaves the counter where it was.
addHeader_NoAdvance(w) ==
    LET pl == Len(w.writeBuf.b)
        plB == encFixedLenInt(pl, 3)
        sIDB == encFixedLenInt(w.sequenceID, 1)
    IN  [w EXCEPT !.writeBuf = Buf((plB \o sIDB) \o w.writeBuf.b)]

\* addHeader: the framed packet, and the counter advanced.
addHeader(w) ==
    LET pl == Len(w.writeBuf.b)
        sID == w.sequenceID
        plB == encFixedLenInt(pl, 3)
        sIDB == encFixedLenInt(sID, 1)
    IN  [w EXCEPT !.sequenceID = sID + 1,
                  !.writeBuf = Buf((plB \o sIDB) \o w.writeBuf.b)]

\* Flush without the check of the held error.
Flush_IgnoreHeldError(w, fail) ==
    IF w.crashed THEN [w |-> w, ret |-> NoErr]
    ELSE IF w.writeBuf.nil THEN [w |-> [w EXCEPT !.crashed = TRUE], ret |-> NoErr]
    ELSE LET h == addHeader(w)
         IN  IF w.txErr \/ fail
             THEN [w |-> [h EXCEPT !.txErr = TRUE], ret |-> TxErr]
             ELSE [w |-> [h EXCEPT !.wire = Append(w.wire,
                                      [conn |-> w.curConn, bytes |-> h.writeBuf.b]),
                                   !.writeBuf = NilBuf],
                   ret |-> NoErr]

\* Flush: [w, ret].  fail: the transport refuses this write.
Flush(w, fail) ==
    IF w.crashed THEN [w |-> w, ret |-> NoErr]
    ELSE IF w.err # NoErr THEN [w |-> w, ret |-> w.err]
    ELSE IF w.writeBuf.nil THEN [w |-> [w EXCEPT !.crashed = TRUE], ret |-> NoErr]
    ELSE LET h == addHeader(w)
         IN  IF w.txErr \/ fail
             THEN [w |-> [h EXCEPT !.txErr = TRUE], ret |-> TxErr]
             ELSE [w |-> [h EXCEPT !.wire = Append(w.wire,
                                      [conn |-> w.curConn, bytes |-> h.writeBuf.b]),
                                   !.writeBuf = NilBuf],
                   ret |-> NoErr]

SetW(w) ==
    /\ sequenceID' = w.sequenceID
    /\ nSent' = nSent + (w.sequenceID - sequenceID)
    /\ writeBuf' = w.writeBuf
    /\ err' = w.err
    /\ wire' = w.wire
    /\ txErr' = w.txErr

NoFlags == [Protocol41 |-> FALSE, Transactions |-> FALSE,
            SecureConnection |-> FALSE, PluginAuthLenEncClientData |-> FALSE]

\* setConnection that also starts the framer afresh.
setConnection_ResetsFramer(nc) ==
    /\ curConn' = nc
    /\ txErr' = FALSE
    /\ sequenceID' = 1 /\ scanPos' = 0 /\ writeBuf' = NilBuf
    /\ UNCHANGED <<rx, rxEnd, call>>

\* setConnection: a new transport, a new buffer and a new scanner on it;
\* the sequence counter, the cursor and the accumulator are not touched.
setConnection(nc) ==
    /\ curConn' = nc
    /\ txErr' = FALSE
    /\ UNCHANGED <<rx, rxEnd, call, sequenceID, scanPos, writeBuf>>

\* newBinlogConn
newBinlogConn(config) ==
    /\ Config = config
    /\ sequenceID = 1
    /\ writeBuf = NilBuf
    /\ err = NoErr
    /\ packetHeader = NoHeader
    /\ scanPos = 0
    /\ Handshake = [AuthPluginName |-> ""]
    /\ HandshakeResponse = [set |-> FALSE, ClientFlag |-> NoFlags,
                            AuthResponseLength |-> 0]
    /\ curConn = "none"
    /\ txErr = FALSE

Passwords == {<<>>, <<112, 119>>}
Configs == [SSL : BOOLEAN, User : {<<117>>}, Pass : Passwords]

\* ------------------------------------------------------------- Framer
\* A bare connection on a working transport, driven through its write API.
FramerInit ==
    /\ \E config \in Configs :
         /\ config.SSL = FALSE /\ config.Pass = <<>>
         /\ newBinlogConn(config)
    /\ rx = <<>> /\ rxEnd = "eof" /\ wire = <<>>
    /\ lastIn = <<>> /\ rdCount = 0 /\ res = NilRes /\ mdData = "-"
    /\ ret = NoErr /\ pc = "api" /\ result = "running"
    /\ op = "-" /\ nSent = 0 /\ wasReset = FALSE /\ call = NoCall

\* The protocol is lock-step: the client acts once the peer has read the
\* frame written last.
FramerIdle == pc = "api" /\ result = "running" /\ wire = <<>>
Room == writeBuf.nil \/ Len(writeBuf.b) < MaxBuf

FramerKeep == UNCHANGED <<Config, Handshake, HandshakeResponse, curConn, rx, rxEnd, call,
                          packetHeader, scanPos, lastIn, rdCount, res, mdData,
                          pc, wasReset>>

FramerPut(w, name) ==
    /\ SetW(w)
    /\ op' = "-"
    /\ result' = IF w.crashed THEN "panic" ELSE result
    /\ ret' = ret
    /\ FramerKeep

PutBytes ==
    /\ FramerIdle /\ Room
    /\ \E v \in {<<>>, <<7>>}, werr \in BOOLEAN :
         FramerPut(putBytes(W, v, werr), "putBytes")

PutNullBytes ==
    /\ FramerIdle /\ Room
    /\ \E n \in {1}, werr \in BOOLEAN :
         FramerPut(putNullBytes(W, n, werr), "putNullBytes")

PutInt ==
    /\ FramerIdle /\ Room
    /\ \E t \in {TypeFixedInt, TypeLenEncInt}, v \in {300}, werr \in BOOLEAN :
         FramerPut(putInt(W, t, v, 1, werr), "putInt")

PutString ==
    /\ FramerIdle /\ Room
    /\ \E t \in {TypeFixedString, TypeNullTerminatedString}, werr \in BOOLEAN :
         FramerPut(putString(W, t, <<>>, werr), "putString")

FramerFlushed(f) ==
    /\ SetW(f.w)
    /\ ret' = f.ret
    /\ op' = "Flush"
    /\ result' = IF f.w.crashed THEN "panic" ELSE result
    /\ FramerKeep

DoFlush ==
    /\ FramerIdle
    /\ sequenceID < MaxSeq
    /\ writeBuf.nil \/ Len(writeBuf.b) <= MaxBuf + 4
    /\ \E fail \in BOOLEAN : FramerFlushed(Flush(W, fail))

\* c.sequenceID = 0, as Open does at a phase boundary.
ResetSequence ==
    /\ FramerIdle
    /\ sequenceID' = 0
    /\ nSent' = 0
    /\ wasReset' = TRUE
    /\ op' = "-"
    /\ UNCHANGED <<Config, Handshake, HandshakeResponse, curConn, txErr, rx, rxEnd, call, wire,
                   writeBuf, err, packetHeader, scanPos, lastIn, rdCount, res,
                   mdData, ret, pc, result>>

\* The peer takes the oldest frame off the wire.
Deliver ==
    /\ pc = "api"
    /\ wire # <<>>
    /\ wire' = Tail(wire)
    /\ op' = "-"
    /\ UNCHANGED <<Config, Handshake, HandshakeResponse, curConn, txErr, rx, rxEnd, call,
                   sequenceID, writeBuf, err, packetHeader, scanPos, lastIn,
                   rdCount, res, mdData, ret, pc, result, nSent, wasReset>>

\* ------------------------------------------------------------ read side
\* The read-side state threaded through the decoders: the bytes still to
\* come (rx), the cursor, the bytes taken so far (got), the bytes of the last
\* read (b), the fields decoded so far in order (f), and st: "ok", "panic"
\* (readBytes panics on a scanner error) or "hang" (a read of about 2^64
\* bytes from a closed stream).
S == [rx |-> rx, scanPos |-> scanPos, got |-> <<>>, b |-> <<>>, f |-> <<>>, st |-> "ok"]

Field(s, x) == [s EXCEPT !.f = Append(s.f, x)]

\* readBytes(l).  A negative l stands for the wrapped uint64 2^64 + l.
readBytes(s, l) ==
    IF s.st # "ok" THEN s
    ELSE IF l >= 0 /\ l <= Len(s.rx)
    THEN [s EXCEPT !.rx = Drop(s.rx, l), !.b = Take(s.rx, l),
                   !.got = s.got \o Take(s.rx, l), !.scanPos = s.scanPos + l]
    ELSE IF rxEnd = "err"
    THEN [s EXCEPT !.rx = <<>>, !.b = <<>>, !.got = s.got \o s.rx, !.st = "panic"]
    ELSE IF l < 0
    THEN [s EXCEPT !.rx = <<>>, !.b = <<>>, !.got = s.got \o s.rx, !.st = "hang"]
    ELSE [s EXCEPT !.rx = <<>>, !.b = s.rx, !.got = s.got \o s.rx,
                   !.scanPos = s.scanPos + Len(s.rx)]

\* The value decFixedInt(l) makes of the bytes read.
FixedIntField(s, l) == Field(s, decFixedIntOf(s.b, l))

decFixedInt(s, l) == FixedIntField(readBytes(s, l), l)

\* binary.Read into a uint16: it needs two bytes and leaves 0 otherwise.
ReadUint16(b) == IF Len(b) >= 2 THEN LEValue(Take(b, 2)) ELSE 0

\* decLenEncInt after its readBytes(1).
LenEncIntField(s) ==
    IF ReadUint16(s.b) > 0 THEN decFixedInt(s, ReadUint16(s.b)) ELSE Field(s, 0)

decLenEncInt(s) == LenEncIntField(readBytes(s, 1))

getInt(s, t, l) ==
    IF t = TypeFixedInt THEN decFixedInt(s, l)
    ELSE IF t = TypeLenEncInt THEN decLenEncInt(s)
    ELSE Field(s, 0)

BytesField(s) == Field(s, s.b)

decFixedString(s, l) == BytesField(readBytes(s, l))

getRemainingBytes(s, ph) == readBytes(s, (ph.Length - 1) - s.scanPos)

decRestOfPacketString(s, ph) == BytesField(getRemainingBytes(s, ph))

\* getPacketHeader: the three fields are read, the cursor is set to 0.
HeaderOf(s) ==
    [set |-> TRUE, Length |-> s.f[1], SequenceID |-> s.f[2], Status |-> s.f[3]]

getPacketHeader(s) ==
    getInt(getInt(getInt(s, TypeFixedInt, 3), TypeFixedInt, 1), TypeFixedInt, 1)

\* decodeOKPacket: the fields in s.f are AffectedRows, LastInsertID,
\* StatusFlags, Warnings, Info.
OKStatusFlags(s, flags) ==
    IF flags.Protocol41 \/ flags.Transactions
    THEN getInt(s, TypeFixedInt, 2) ELSE Field(s, 0)

OKWarnings(s, flags) ==
    IF flags.Protocol41 THEN getInt(s, TypeFixedInt, 1) ELSE Field(s, 0)

decodeOKPacket(s, ph, flags) ==
    decRestOfPacketString(
        OKWarnings(OKStatusFlags(getInt(getInt(s, TypeLenEncInt, 0), TypeLenEncInt, 0),
                                 flags), flags), ph)

OKPacketOf(s, ph) ==
    [NilRes EXCEPT !.kind = "OK", !.Header = ph.Status, !.AffectedRows = s.f[1],
                   !.LastInsertID = s.f[2], !.StatusFlags = s.f[3],
                   !.Warnings = s.f[4], !.Info = s.f[5]]

\* decodeErrorPacket taking the error code as one byte.
decodeErrorPacket_ShortCode(s, ph) ==
    decRestOfPacketString(
        decFixedString(decFixedString(getInt(s, TypeFixedInt, 1), 1), 5), ph)

\* decodeErrorPacket: the fields in s.f are ErrorCode, SQLStateMarker,
\* SQLState, ErrorMessage.
decodeErrorPacket(s, ph) ==
    decRestOfPacketString(
        decFixedString(decFixedString(getInt(s, TypeFixedInt, 2), 1), 5), ph)

ErrorPacketOf(s) ==
    [NilRes EXCEPT !.kind = "Err", !.ErrorCode = s.f[1], !.SQLStateMarker = s.f[2],
                   !.SQLState = s.f[3], !.ErrorMessage = s.f[4]]

\* decodeAuthMoreDataResponsePacket: the flag is s.f[1].
decodeAuthMoreDataResponsePacket(s) == getInt(s, TypeFixedInt, 1)

AuthMoreDataOf(s) ==
    IF s.f[1] = SHA2_FAST_AUTH_SUCCESS THEN "SHA2_FAST_AUTH_SUCCESS"
    ELSE IF s.f[1] = SHA2_REQUEST_PUBLIC_KEY THEN "SHA2_REQUEST_PUBLIC_KEY"
    ELSE IF s.f[1] = SHA2_PERFORM_FULL_AUTHENTICATION
    THEN "SHA2_PERFORM_FULL_AUTHENTICATION"
    ELSE ""

\* What readPacket returns and leaves behind: [s, w, res, err, data].
Returned(s, w, r, e, data) == [s |-> s, w |-> w, res |-> r, err |-> e, data |-> data]

\* `if c.Flush() != nil { return nil, c.Flush() }`: f is the first Flush.
FlushTwice(s, f, fail, data) ==
    IF f.ret # NoErr
    THEN Returned(s, Flush(f.w, fail).w, NilRes, Flush(f.w, fail).ret, data)
    ELSE Returned(s, f.w, NilRes, NoErr, data)

\* case StatusAuth, after decodeAuthMoreDataResponsePacket.
AuthCase(s, w, pass, werr, fail) ==
    IF s.st = "ok" /\ AuthMoreDataOf(s) = "SHA2_PERFORM_FULL_AUTHENTICATION"
    THEN FlushTwice(s, Flush(putBytes(w, pass \o <<NullByte>>, werr), fail), fail,
                    AuthMoreDataOf(s))
    ELSE Returned(s, w, NilRes, NoErr, IF s.st = "ok" THEN AuthMoreDataOf(s) ELSE "-")

OKCase(s, w, ph) ==
    Returned(s, w, IF s.st = "ok" THEN OKPacketOf(s, ph) ELSE NilRes, NoErr, "-")

ErrCase(s, w) ==
    IF s.st = "ok"
    THEN Returned(s, w, ErrorPacketOf(s),
                  ServerErr(ErrorPacketOf(s).ErrorCode, ErrorPacketOf(s).ErrorMessage),
                  "-")
    ELSE Returned(s, w, NilRes, NoErr, "-")

\* readPacket without the fallthrough of StatusEOF to StatusOK.
readPacketSwitch_NoEOF(s, w, ph, flags, pass, werr, fail) ==
    IF ph.Status = StatusAuth
    THEN AuthCase(decodeAuthMoreDataResponsePacket(s), w, pass, werr, fail)
    ELSE IF ph.Status = StatusOK
    THEN OKCase(decodeOKPacket(s, ph, flags), w, ph)
    ELSE IF ph.Status = StatusErr
    THEN ErrCase(decodeErrorPacket(s, ph), w)
    ELSE Returned(s, w, NilRes, NoErr, "-")

\* The switch of readPacket on ph.Status, after getPacketHeader.  werr and
\* fail are the results of the accumulator write and of the transport write
\* of the full-authentication branch.
readPacketSwitch(s, w, ph, flags, pass, werr, fail) ==
    IF ph.Status = StatusAuth
    THEN AuthCase(decodeAuthMoreDataResponsePacket(s), w, pass, werr, fail)
    ELSE IF ph.Status = StatusEOF \/ ph.Status = StatusOK
    THEN OKCase(decodeOKPacket(s, ph, flags), w, ph)
    ELSE IF ph.Status = StatusErr
    THEN ErrCase(decodeErrorPacket(s, ph), w)
    ELSE Returned(s, w, NilRes, NoErr, "-")

\* ------------------------------------------------------- authentication
\* The digests are opaque: only their width is modelled.
sha1Hash(word) == [i \in 1..20 |-> 170]
sha256Hash(word) == [i \in 1..32 |-> 187]

nativeSha1Auth(salt, password) ==
    IF Len(password) < 1 THEN <<>> ELSE sha1Hash(password)

cachingSha2Auth(salt, password) ==
    IF Len(password) < 1 THEN <<>> ELSE sha256Hash(password)

AuthResponseOf(plugin, salt, password) ==
    IF plugin = "mysql_native_password" THEN nativeSha1Auth(salt, password)
    ELSE IF plugin = "caching_sha2_password" THEN cachingSha2Auth(salt, password)
    ELSE <<>>

\* nativeSha1Auth of src/binlog/authentication.go: no test of the password.
binlog_nativeSha1Auth(salt, password) == sha1Hash(password)

\* authenticate of src/binlog/authentication.go, up to the response.
binlog_AuthResponseOf(plugin, salt, password) ==
    IF plugin = "mysql_native_password" THEN binlog_nativeSha1Auth(salt, password)
    ELSE IF plugin = "caching_sha2_password" THEN cachingSha2Auth(salt, password)
    ELSE <<>>

\* authenticate writing the response null-terminated whatever the flags.
PutAuthResponse_AlwaysNull(w, flags, ar, werr) ==
    putString(w, TypeNullTerminatedString, ar, werr)

\* authenticate: the auth response appended to the accumulator.
PutAuthResponse(w, flags, ar, werr) ==
    IF flags.PluginAuthLenEncClientData
    THEN putBytes(putInt(w, TypeLenEncInt, Len(ar), 0, FALSE), ar, werr)
    ELSE IF flags.SecureConnection
    THEN putBytes(putInt(w, TypeFixedInt, Len(ar), 1, FALSE), ar, werr)
    ELSE putString(w, TypeNullTerminatedString, ar, werr)

authenticate(w, plugin, flags, salt, password, werr) ==
    PutAuthResponse(w, flags, AuthResponseOf(plugin, Take(salt, 20), password), werr)

\* ------------------------------------------------------- the server side
\* What the server sends is fixed at the start: its handshake packet, its
\* reply to the handshake response and its reply to the registration
\* command, cut off at any byte.
Hdr(len, seq) == encFixedLenInt(len, 3) \o encFixedLenInt(seq, 1)
HandshakePacket == Hdr(1, 0) \o <<10>>
Salt == [i \in 1..20 |-> 115]
Msg(n) == [i \in 1..n |-> 64 + i]
OKPacket(seq, status) == Hdr(7, seq) \o <<status, 0, 0, 2, 0, 0, 73>>
ShortOKPacket(seq) == Hdr(1, seq) \o <<StatusOK>>
ErrPacket(seq, n) ==
    Hdr(9 + n, seq) \o <<StatusErr, 21, 4, 35, 50, 56, 48, 48, 48>> \o Msg(n)
AuthMoreDataPacket(seq, flag) == Hdr(2, seq) \o <<StatusAuth, flag>>
UnknownPacket(seq, n) == Hdr(1 + n, seq) \o <<2>> \o Msg(n)

AuthReplies ==
    {OKPacket(2, StatusOK), OKPacket(2, StatusEOF), ShortOKPacket(2),
     UnknownPacket(2, 0), UnknownPacket(2, 2)}
    \cup {ErrPacket(2, n) : n \in 0..MaxMsgLen}
    \cup {AuthMoreDataPacket(2, f) : f \in {SHA2_REQUEST_PUBLIC_KEY,
              SHA2_FAST_AUTH_SUCCESS, SHA2_PERFORM_FULL_AUTHENTICATION}}
AckReplies == {OKPacket(1, StatusOK), ErrPacket(1, MaxMsgLen), ShortOKPacket(1)}

Cuts(script) == {Take(script, k) : k \in 0..Len(script)}
ServerScripts(first) ==
    UNION {Cuts(first \o p1 \o p2) : p1 \in AuthReplies, p2 \in AckReplies}

ClientFlagSets ==
    {[NoFlags EXCEPT !.Protocol41 = TRUE, !.SecureConnection = TRUE,
                     !.PluginAuthLenEncClientData = TRUE],
     [NoFlags EXCEPT !.Protocol41 = TRUE, !.SecureConnection = TRUE],
     [NoFlags EXCEPT !.Transactions = TRUE]}

Plugins == {"mysql_native_password", "caching_sha2_password"}

\* ---------------------------------------------------------- Driver.Open
Init ==
    /\ \E config \in Configs : newBinlogConn(config)
    /\ rx \in ServerScripts(HandshakePacket)
    /\ rxEnd \in {"eof", "err"}
    /\ wire = <<>>
    /\ lastIn = <<>> /\ rdCount = 0 /\ res = NilRes /\ mdData = "-"
    /\ ret = NoErr /\ pc = "Dial" /\ result = "running"
    /\ op = "-" /\ nSent = 0 /\ wasReset = FALSE /\ call = NoCall

Running(at) == pc = at /\ result = "running"

\* `return nil, err`
Return(e) == ret' = e /\ result' = "error" /\ pc' = "return"

ReadKeep == UNCHANGED <<rx, rxEnd, call, packetHeader, scanPos, lastIn, rdCount, res, mdData>>
WriteKeep == UNCHANGED <<wire, sequenceID, writeBuf, err, txErr, nSent>>
ConnKeep == UNCHANGED <<Config, Handshake, HandshakeResponse, curConn>>

\* dialer.Dial and the branches on its error.
Dial ==
    /\ Running("Dial")
    /\ \/ /\ setConnection("tcp")
          /\ ret' = NoErr /\ pc' = "decodeHandshakePacket" /\ result' = result
       \/ /\ Return(DialErr)
          /\ UNCHANGED <<curConn, txErr, rx, rxEnd, call, sequenceID, scanPos, writeBuf>>
       \/ /\ ret' = DialErr /\ pc' = "decodeHandshakePacket" /\ result' = result
          /\ UNCHANGED <<curConn, txErr, rx, rxEnd, call, sequenceID, scanPos, writeBuf>>
    /\ UNCHANGED <<Config, Handshake, HandshakeResponse, wire, err, packetHeader,
                   lastIn, rdCount, res, mdData, op, nSent, wasReset>>

\* decodeHandshakePacket and NewHandshakeResponse.  Without a connection the
\* scanner is nil and the first read panics.
DecodeHandshake ==
    /\ Running("decodeHandshakePacket")
    /\ LET n == Len(HandshakePacket)
       IN  \/ /\ curConn = "none"
              /\ result' = "panic"
              /\ UNCHANGED <<rx, rdCount, ret, pc, Handshake, HandshakeResponse>>
           \/ /\ curConn # "none" /\ Len(rx) < n
              /\ Return(HandshakeErr)
              /\ rx' = <<>>
              /\ UNCHANGED <<rdCount, Handshake, HandshakeResponse>>
           \/ /\ curConn # "none" /\ Len(rx) >= n
              /\ rx' = Drop(rx, n)
              /\ rdCount' = rdCount + 1
              /\ \E plugin \in Plugins, flags \in ClientFlagSets :
                   /\ Handshake' = [AuthPluginName |-> plugin]
                   /\ HandshakeResponse' = [set |-> TRUE, ClientFlag |-> flags,
                                            AuthResponseLength |-> 0]
              /\ ret' = NoErr /\ result' = result
              /\ pc' = IF Config.SSL THEN "writeSSLRequestPacket"
                       ELSE "writeHandshakeResponse"
    /\ WriteKeep
    /\ UNCHANGED <<Config, curConn, rxEnd, call, packetHeader, scanPos, lastIn, res,
                   mdData, op, wasReset>>

CapabilityFlags(flags, ssl) ==
    (IF flags.Protocol41 THEN 512 ELSE 0) + (IF ssl THEN 2048 ELSE 0)
    + (IF flags.Transactions THEN 8192 ELSE 0)
    + (IF flags.SecureConnection THEN 32768 ELSE 0)
    + (IF flags.PluginAuthLenEncClientData THEN 2097152 ELSE 0)

\* A step of Open that writes one packet: the accumulator w is flushed, Open
\* returns the error of Flush or goes on at next.
Flushed(f, next) ==
    /\ SetW(f.w)
    /\ IF f.w.crashed
       THEN result' = "panic" /\ UNCHANGED <<ret, pc>>
       ELSE IF f.ret # NoErr THEN Return(f.ret)
       ELSE ret' = NoErr /\ pc' = next /\ result' = result
    /\ ReadKeep
    /\ UNCHANGED <<Config, Handshake, curConn, op, wasReset>>

WriteStep(w, fail, next) == Flushed(Flush(w, fail), next)

\* The first fields of the SSL request and of the handshake response.
ResponseHead(w, flags, ssl, werr) ==
    putInt(putInt(putInt(w, TypeFixedInt, CapabilityFlags(flags, ssl), 4, FALSE),
                  TypeFixedInt, MaxUint16, 4, FALSE),
           TypeFixedInt, 33, 1, werr)

writeSSLRequestPacket ==
    /\ Running("writeSSLRequestPacket")
    /\ \E werr \in BOOLEAN, fail \in BOOLEAN :
         WriteStep(ResponseHead(W, HandshakeResponse.ClientFlag, TRUE, werr),
                   fail, "tlsClient")
    /\ UNCHANGED HandshakeResponse

\* tls.Client and setConnection on the TLS session.
TLSUpgrade ==
    /\ Running("tlsClient")
    /\ setConnection("tls")
    /\ pc' = "writeHandshakeResponse"
    /\ UNCHANGED <<Config, Handshake, HandshakeResponse, wire, err, packetHeader,
                   lastIn, rdCount, res, mdData, ret, result, op, nSent, wasReset>>

writeHandshakeResponse ==
    /\ Running("writeHandshakeResponse")
    /\ \E werr \in BOOLEAN, fail \in BOOLEAN :
         /\ WriteStep(
                authenticate(
                    putString(
                        putNullBytes(
                            ResponseHead(W, HandshakeResponse.ClientFlag,
                                         Config.SSL, FALSE),
                            23, FALSE),
                        TypeNullTerminatedString, Config.User, FALSE),
                    Handshake.AuthPluginName, HandshakeResponse.ClientFlag,
                    Salt, Config.Pass, werr),
                fail, "readPacket1.getPacketHeader")
         /\ HandshakeResponse' =
              [HandshakeResponse EXCEPT !.AuthResponseLength =
                 Len(AuthResponseOf(Handshake.AuthPluginName, Take(Salt, 20),
                                    Config.Pass))]

\* readPacket, first half: getPacketHeader, g the stream after its reads.
GotPacketHeader(g) ==
    /\ rx' = g.rx
    /\ lastIn' = g.got
    /\ IF g.st = "ok"
       THEN /\ packetHeader' = HeaderOf(g)
            /\ scanPos' = 0
            /\ rdCount' = rdCount + 1
            /\ result' = result
            /\ pc' = IF pc = "readPacket1.getPacketHeader"
                     THEN "readPacket1.switch" ELSE "readPacket2.switch"
       ELSE /\ result' = g.st
            /\ UNCHANGED <<packetHeader, scanPos, rdCount, pc>>

ReadPacketHeader ==
    /\ \/ Running("readPacket1.getPacketHeader")
       \/ Running("readPacket2.getPacketHeader")
    /\ GotPacketHeader(getPacketHeader(S))
    /\ WriteKeep /\ ConnKeep
    /\ UNCHANGED <<rxEnd, call, res, mdData, ret, op, wasReset>>

\* readPacket, second half: the switch on ph.Status and the return, r what
\* the switch leaves.
ReadPacketReturns(r) ==
    /\ rx' = r.s.rx
    /\ lastIn' = lastIn \o r.s.got
    /\ scanPos' = r.s.scanPos
    /\ SetW(r.w)
    /\ IF r.s.st # "ok"
       THEN result' = r.s.st /\ UNCHANGED <<res, mdData, ret, pc>>
       ELSE /\ mdData' = r.data
            /\ res' = r.res
            /\ IF r.err # NoErr
               THEN Return(r.err)
               ELSE /\ ret' = NoErr
                    /\ result' = result
                    /\ pc' = IF pc = "readPacket1.switch"
                             THEN "sequenceID=0 (1)"
                             ELSE "startBinlogStream"

ReadPacketSwitch ==
    /\ \/ Running("readPacket1.switch")
       \/ Running("readPacket2.switch")
    /\ \E werr \in BOOLEAN, fail \in BOOLEAN :
         ReadPacketReturns(readPacketSwitch(S, W, packetHeader,
                                            HandshakeResponse.ClientFlag,
                                            Config.Pass, werr, fail))
    /\ ConnKeep
    /\ UNCHANGED <<rxEnd, call, packetHeader, rdCount, op, wasReset>>

\* c.sequenceID = 0 after the reply to the handshake response.
ResetAfterAuth ==
    /\ Running("sequenceID=0 (1)")
    /\ sequenceID' = 0 /\ nSent' = 0 /\ wasReset' = TRUE
    /\ pc' = "registerAsSlave"
    /\ ReadKeep /\ ConnKeep
    /\ UNCHANGED <<wire, writeBuf, err, txErr, ret, result, op>>

\* registerAsSlave: COM_REGISTER_SLAVE as one framed packet.
registerAsSlave ==
    /\ Running("registerAsSlave")
    /\ \E werr \in BOOLEAN, fail \in BOOLEAN :
         WriteStep(putInt(W, TypeFixedInt, 21, 1, werr), fail, "sequenceID=0 (2)")
    /\ UNCHANGED HandshakeResponse

\* Open going from registerAsSlave to readPacket with no reset between.
ResetAfterRegister_Missing ==
    /\ Running("sequenceID=0 (2)")
    /\ pc' = "readPacket2.getPacketHeader"
    /\ ReadKeep /\ ConnKeep /\ WriteKeep
    /\ UNCHANGED <<ret, result, op, wasReset>>

\* c.sequenceID = 0 after registerAsSlave.
ResetAfterRegister ==
    /\ Running("sequenceID=0 (2)")
    /\ sequenceID' = 0 /\ nSent' = 0 /\ wasReset' = TRUE
    /\ pc' = "readPacket2.getPacketHeader"
    /\ ReadKeep /\ ConnKeep
    /\ UNCHANGED <<wire, writeBuf, err, txErr, ret, result, op>>

\* startBinlogStream: COM_BINLOG_DUMP as one framed packet.
startBinlogStream ==
    /\ Running("startBinlogStream")
    /\ \E werr \in BOOLEAN, fail \in BOOLEAN :
         WriteStep(putInt(W, TypeFixedInt, 18, 1, werr), fail, "listenForBinlog")
    /\ UNCHANGED HandshakeResponse

\* listenForBinlog reads until the stream ends; Open returns its result.
listenForBinlog ==
    /\ Running("listenForBinlog")
    /\ rx' = <<>>
    /\ IF rxEnd = "eof"
       THEN ret' = NoErr /\ result' = "ok" /\ pc' = "return"
       ELSE Return(TxErr)
    /\ WriteKeep /\ ConnKeep
    /\ UNCHANGED <<rxEnd, call, packetHeader, scanPos, lastIn, rdCount, res, mdData,
                   op, wasReset>>

Next ==
    \/ Dial
    \/ DecodeHandshake
    \/ writeSSLRequestPacket
    \/ TLSUpgrade
    \/ writeHandshakeResponse
    \/ ReadPacketHeader
    \/ ReadPacketSwitch
    \/ ResetAfterAuth
    \/ registerAsSlave
    \/ ResetAfterRegister
    \/ startBinlogStream
    \/ listenForBinlog

Spec == Init /\ [][Next]_vars

\* ------------------------------------------------------------- Codec
\* The codec functions called on their own on a bare connection.  What an
\* encoder returns is handed to the scanner of the same connection, followed
\* by the first byte of the next field, and the matching decoder reads it.
CodecInit ==
    /\ \E config \in Configs :
         /\ config.SSL = FALSE /\ config.Pass = <<>>
         /\ newBinlogConn(config)
    /\ rx = <<>> /\ rxEnd = "eof" /\ wire = <<>>
    /\ lastIn = <<>> /\ rdCount = 0 /\ res = NilRes /\ mdData = "-"
    /\ ret = NoErr /\ pc = "codec" /\ result = "running"
    /\ op = "-" /\ nSent = 0 /\ wasReset = FALSE /\ call = NoCall

\* Values handed to the integer encoders, all below 2^31.
IntInputs == {0, 1, 250, 251, 254, 255, 256, 258, 65534, 65535, 65536, 65794,
              16777214, 16777215, 16777216, 16909060, 2147483647}
FixedWidths == {1, 2, 3, 4, 8}
\* The first byte of the field that follows on the wire.
NextField == <<85>>

CodecKeep == UNCHANGED <<Config, Handshake, HandshakeResponse, curConn, txErr, rxEnd,
                         wire, sequenceID, writeBuf, err, packetHeader, rdCount,
                         res, mdData, ret, pc, result, op, nSent, wasReset>>

\* An encoder has returned bytes: they are what the scanner delivers next.
Encoded(fn, v, n, bytes) ==
    /\ call' = [fn |-> fn, v |-> v, n |-> n, bytes |-> bytes]
    /\ rx' = bytes \o NextField
    /\ UNCHANGED <<scanPos, lastIn>>
    /\ CodecKeep

\* A decoder has returned: s is the stream it leaves, s.f[1] its value.
Decoded(fn, s) ==
    /\ call' = [fn |-> fn, v |-> call.v, n |-> call.n, bytes |-> call.bytes,
                out |-> IF s.f = <<>> THEN 0 ELSE s.f[1], st |-> s.st]
    /\ rx' = s.rx
    /\ scanPos' = s.scanPos
    /\ lastIn' = s.got
    /\ CodecKeep

EncLenEncInt ==
    /\ pc = "codec" /\ call = NoCall
    /\ \E v \in IntInputs : Encoded("encLenEncInt", v, 0, encLenEncInt(v))

DecLenEncInt ==
    /\ pc = "codec" /\ call.fn = "encLenEncInt"
    /\ Decoded("decLenEncInt", decLenEncInt(S))

EncFixedLenInt ==
    /\ pc = "codec" /\ call = NoCall
    /\ \E v \in IntInputs, n \in FixedWidths :
         Encoded("encFixedLenInt", v, n, encFixedLenInt(v, n))

DecFixedInt ==
    /\ pc = "codec" /\ call.fn = "encFixedLenInt"
    /\ Decoded("decFixedInt", decFixedInt(S, call.n))

\* Numbers of fields of the structs handed to structToBitmask.
FieldCounts == {1, 7, 8, 9, 16, 17, 31, 32, 33, 63, 64}
\* Assignments of a struct of k fields: none, all, one, and one with the last.
ShapesOf(k) ==
    {[i \in 1..k |-> i \in T] :
        T \in {{}, 1..k} \cup {{a} : a \in 1..k} \cup {{a, k} : a \in 1..k}}

StructToBitmask ==
    /\ pc = "codec" /\ call = NoCall
    /\ \E k \in FieldCounts : \E s \in ShapesOf(k) :
         call' = [fn |-> "structToBitmask", v |-> s, n |-> k,
                  bytes |-> structToBitmask(s)]
    /\ UNCHANGED <<rx, scanPos, lastIn>>
    /\ CodecKeep

BitmaskToStruct ==
    /\ pc = "codec" /\ call.fn = "structToBitmask"
    /\ call' = [fn |-> "bitmaskToStruct", v |-> call.v, n |-> call.n,
                bytes |-> call.bytes,
                out |-> bitmaskToStruct(call.bytes, call.n).fields,
                st |-> bitmaskToStruct(call.bytes, call.n).st]
    /\ UNCHANGED <<rx, scanPos, lastIn>>
    /\ CodecKeep

\* The two versions of authentication under src/.
Builds == {"unnamed/part_001", "binlog/authentication.go"}
\* The two capability flags authenticate looks at.
AuthFlagSets ==
    {[NoFlags EXCEPT !.SecureConnection = sc, !.PluginAuthLenEncClientData = le] :
        sc \in BOOLEAN, le \in BOOLEAN}

\* The caller of authenticate has written the fields that come before the
\* auth response (here the character set, one byte).
PutBeforeAuth ==
    /\ pc = "codec" /\ call = NoCall
    /\ \E v \in {8, 33} :
         /\ SetW(putInt(W, TypeFixedInt, v, 1, FALSE))
         /\ call' = [fn |-> "putInt", v |-> v, n |-> 1, bytes |-> <<v>>]
    /\ UNCHANGED <<Config, Handshake, HandshakeResponse, curConn, rx, rxEnd,
                   packetHeader, scanPos, lastIn, rdCount, res, mdData, ret, pc,
                   result, op, wasReset>>

\* authenticate has returned: w is the write side it leaves, ar the response.
Authenticated(build, plugin, pass, flags, ar, w) ==
    /\ SetW(w)
    /\ result' = IF w.crashed THEN "panic" ELSE result
    /\ HandshakeResponse' = [HandshakeResponse EXCEPT !.AuthResponseLength = Len(ar)]
    /\ call' = [fn |-> "authenticate", build |-> build, plugin |-> plugin,
                pass |-> pass, flags |-> flags, before |-> writeBuf.b, ar |-> ar]
    /\ UNCHANGED <<Config, Handshake, curConn, rx, rxEnd, packetHeader, scanPos,
                   lastIn, rdCount, res, mdData, ret, pc, op, wasReset>>

Authenticate ==
    /\ pc = "codec" /\ call.fn = "putInt"
    /\ \E plugin \in Plugins, pass \in Passwords, flags \in AuthFlagSets :
         \/ Authenticated("unnamed/part_001", plugin, pass, flags,
                          AuthResponseOf(plugin, Take(Salt, 20), pass),
                          authenticate(W, plugin, flags, Salt, pass, FALSE))
         \/ Authenticated("binlog/authentication.go", plugin, pass, flags,
                          binlog_AuthResponseOf(plugin, Salt, pass),
                          PutAuthResponse(W, flags,
                              binlog_AuthResponseOf(plugin, Salt, pass), FALSE))

CodecNext ==
    \/ EncLenEncInt
    \/ DecLenEncInt
    \/ EncFixedLenInt
    \/ DecFixedInt
    \/ StructToBitmask
    \/ BitmaskToStruct
    \/ PutBeforeAuth
    \/ Authenticate

CodecSpec == CodecInit /\ [][CodecNext]_vars

\* ------------------------------------------------ Framer, continued
\* `if c.Flush() != nil { return c.Flush() }`: f is what the first Flush gave.
FlushAgain(f, fail) == IF f.ret # NoErr THEN Flush(f.w, fail) ELSE f

\* writeAuthSwitchPacket has returned: f is what its last Flush gave, ar the
\* auth response.
AuthSwitchWritten(f, ar) ==
    /\ SetW(f.w)
    /\ ret' = f.ret
    /\ op' = "writeAuthSwitchPacket"
    /\ result' = IF f.w.crashed THEN "panic" ELSE result
    /\ HandshakeResponse' = [HandshakeResponse EXCEPT !.AuthResponseLength = Len(ar)]
    /\ UNCHANGED <<Config, Handshake, curConn, rx, rxEnd, call, packetHeader,
                   scanPos, lastIn, rdCount, res, mdData, pc, wasReset>>

\* writeAuthSwitchPacket: authenticate, then Flush, and Flush once more when
\* the first one failed.  The plugin, the flags and the password are those
\* the connection holds by then.
writeAuthSwitchPacket ==
    /\ FramerIdle
    /\ sequenceID < MaxSeq - 1
    /\ writeBuf.nil \/ Len(writeBuf.b) <= MaxBuf
    /\ \E plugin \in Plugins, flags \in AuthFlagSets, pass \in Passwords,
          fail \in BOOLEAN :
         AuthSwitchWritten(
             FlushAgain(Flush(authenticate(W, plugin, flags, Salt, pass, FALSE), fail),
                        fail),
             AuthResponseOf(plugin, Take(Salt, 20), pass))

FramerNext ==
    \/ PutBytes
    \/ PutNullBytes
    \/ PutInt
    \/ PutString
    \/ DoFlush
    \/ writeAuthSwitchPacket
    \/ ResetSequence
    \/ Deliver

FramerSpec == FramerInit /\ [][FramerNext]_vars

\* ================================================================ claims
LastFrame == wire[Len(wire)]
\* The sequence ID byte of a frame.
SeqByte(f) == f.bytes[4]
\* The frame of payload b under sequence counter value s, written out by hand.
FrameOf(b, s) ==
    <<Len(b) % 256, (Len(b) \div 256) % 256, (Len(b) \div 65536) % 256, s % 256>> \o b

\* C1 (as stated): the Nth packet flushed since construction or the last
\* reset carries sequence ID (N-1) mod 256.
C1_AsStated ==
    [][Len(wire') > Len(wire) => SeqByte(wire'[Len(wire')]) = nSent % 256]_vars

\* C1 (amended): the counter of a new connection starts at 1, so the Nth
\* packet flushed carries sequence ID N mod 256 until the counter is reset;
\* after a reset to 0 the Nth packet flushed carries (N-1) mod 256, the
\* counter being cut to one byte in the header.
C1_SequenceIDs ==
    [][Len(wire') > Len(wire) =>
         SeqByte(wire'[Len(wire')]) = ((IF wasReset THEN 0 ELSE 1) + nSent) % 256]_vars

\* The 257th packet of a connection never reset is on the wire with ID 1.
C1_Witness ==
    /\ ~wasReset /\ nSent = 257
    /\ wire # <<>> /\ SeqByte(LastFrame) = 1

\* C2: a Flush with no held error on a working transport writes one frame,
\* 3-byte little-endian length, 1-byte sequence counter, the accumulator
\* bytes; the counter is then one higher and the accumulator gone.
C2_FlushFrame ==
    [][(op' = "Flush" /\ err = NoErr /\ ret' = NoErr /\ ~writeBuf.nil) =>
         /\ wire' = Append(wire, [conn |-> curConn,
                                   bytes |-> FrameOf(writeBuf.b, sequenceID)])
         /\ sequenceID' = sequenceID + 1
         /\ writeBuf' = NilBuf]_vars

\* A flushed frame with a payload is on the wire and the accumulator is gone.
C2_Witness ==
    /\ op = "Flush" /\ ret = NoErr /\ result = "running"
    /\ wire # <<>> /\ Len(LastFrame.bytes) > 4
    /\ writeBuf.nil

\* C3: once an accumulator write has recorded an encode error, the error
\* stays, and every Flush returns it and leaves the transport, the sequence
\* counter and the accumulator as they were.
C3_HeldError ==
    [][err # NoErr =>
         /\ err' = err
         /\ op' = "Flush" => /\ ret' = err
                             /\ UNCHANGED <<wire, txErr, sequenceID, writeBuf>>]_vars

\* A Flush has returned the held error with bytes still in the accumulator.
C3_Witness ==
    /\ err = EncErr /\ op = "Flush" /\ ret = EncErr
    /\ ~writeBuf.nil /\ writeBuf.b # <<>>

\* ---------------------------------------------------------------- Open
\* The last readPacket has just returned without error.
ReadReturnedNil == result = "running" /\ pc \in {"sequenceID=0 (1)", "startBinlogStream"}
\* getPacketHeader has just returned without error.
HeaderReturnedNil ==
    result = "running" /\ pc \in {"readPacket1.switch", "readPacket2.switch"}
\* The frame that registerAsSlave writes under sequence counter value s.
RegisterFrame(s) == FrameOf(<<21>>, s)
\* A step that sets the sequence counter to 0.
ResetStep == sequenceID' = 0 /\ sequenceID # 0

\* C4 (as stated): the counter is set to 0 only right after the reply to the
\* handshake response was read without error, and after the acknowledgement
\* of the registration command (the third packet of the server) was read.
C4_AsStated ==
    [][ResetStep => (pc = "sequenceID=0 (1)" \/ rdCount >= 3)]_vars

\* C4 (amended): the counter is set to 0 at exactly two points of Open: right
\* after the readPacket for the reply to the handshake response returned
\* without error, and right after the registration command was written,
\* before its acknowledgement is read; nowhere else.
C4_ResetPoints ==
    /\ [][ResetStep =>
            \/ pc = "sequenceID=0 (1)" /\ ret = NoErr /\ rdCount = 2
            \/ /\ pc = "sequenceID=0 (2)" /\ ret = NoErr /\ rdCount = 2
               /\ wire # <<>> /\ LastFrame.bytes = RegisterFrame(0)]_vars
    /\ [](result = "running" /\ pc = "registerAsSlave" => sequenceID = 0)
    /\ [](result = "running" /\ pc = "readPacket2.getPacketHeader" => sequenceID = 0)

\* The second reset is done, the registration command is the last frame on
\* the wire and its acknowledgement is still unread.
C4_Witness ==
    /\ pc = "readPacket2.getPacketHeader" /\ result = "running"
    /\ sequenceID = 0 /\ rdCount = 2
    /\ wire # <<>> /\ LastFrame.bytes = RegisterFrame(0)

\* C5: replacing the transport by the TLS session leaves the sequence
\* counter, the read cursor and the accumulator as they are: the SSL request
\* goes out on the plain connection with sequence ID 1 and the handshake
\* response on the TLS session with sequence ID 2.
C5_TLSUpgradeKeepsFramer ==
    /\ [][curConn' # curConn => UNCHANGED <<sequenceID, scanPos, writeBuf, wire>>]_vars
    /\ [](Config.SSL /\ pc = "tlsClient" =>
            /\ Len(wire) = 1 /\ wire[1].conn = "tcp" /\ SeqByte(wire[1]) = 1
            /\ sequenceID = 2)
    /\ [](Config.SSL /\ pc = "readPacket1.getPacketHeader" =>
            /\ Len(wire) = 2
            /\ wire[1].conn = "tcp" /\ SeqByte(wire[1]) = 1
            /\ wire[2].conn = "tls" /\ SeqByte(wire[2]) = 2)

\* The handshake response has gone out on the TLS session.
C5_Witness ==
    /\ Config.SSL /\ curConn = "tls" /\ pc = "readPacket1.getPacketHeader"
    /\ Len(wire) = 2 /\ wire[2].conn = "tls" /\ SeqByte(wire[2]) = 2

\* C6: after an AuthMoreData packet asking for full authentication the
\* password and a null byte have gone out as a frame and the next packet of
\* the server has been read before Open resets the counter.
C6_AsStated ==
    (ReadReturnedNil /\ pc = "sequenceID=0 (1)"
       /\ mdData = "SHA2_PERFORM_FULL_AUTHENTICATION") =>
        /\ wire # <<>>
        /\ Drop(LastFrame.bytes, 4) = Config.Pass \o <<NullByte>>
        /\ rdCount >= 3

\* C7: after an AuthMoreData packet asking for the public key readPacket
\* does not return plain success unless the key exchange has been done
\* (a frame written after the handshake response).
C7_AsStated ==
    (ReadReturnedNil /\ pc = "sequenceID=0 (1)" /\ mdData = "SHA2_REQUEST_PUBLIC_KEY") =>
        Len(wire) > (IF Config.SSL THEN 2 ELSE 1)

\* C8: readPacket classifies the packet by its status byte: 0x00 and 0xFE
\* return a decoded OK packet, 0xFF returns a decoded Error packet with a
\* failure, 0x01 is taken as an authentication continuation, and any other
\* status byte returns without a packet and without a crash.
C8_Classification ==
    /\ [](ReadReturnedNil =>
            /\ packetHeader.Status # StatusErr
            /\ packetHeader.Status \in {StatusOK, StatusEOF} <=> res.kind = "OK"
            /\ res.kind = "OK" => res.Header = packetHeader.Status
            /\ packetHeader.Status = StatusAuth <=> mdData # "-"
            /\ packetHeader.Status \notin {StatusOK, StatusEOF} => res = NilRes)
    /\ [](ret.kind = "server" => packetHeader.Status = StatusErr /\ res.kind = "Err")
    /\ [][(HeaderReturnedNil /\ packetHeader.Status = StatusErr /\ pc' # pc) =>
            ret'.kind = "server"]_vars
    /\ [][(HeaderReturnedNil /\ packetHeader.Status \notin
              {StatusOK, StatusEOF, StatusErr, StatusAuth}) =>
            result' = "running" /\ ret' = NoErr]_vars

\* An EOF packet has been returned as an OK packet.
C8_Witness ==
    /\ ReadReturnedNil /\ packetHeader.Status = StatusEOF
    /\ res.kind = "OK" /\ res.Header = StatusEOF

\* C9: an Error packet read in full decodes to the code of its first two
\* payload bytes, the marker, the five bytes of SQL state and, as message,
\* all the payload bytes left; readPacket returns the failure with that code
\* and message, Open returns it and writes no further packet.
C9_ErrorPacket ==
    /\ []((res.kind = "Err" /\ Len(lastIn) = 4 + packetHeader.Length) =>
            /\ packetHeader.Length >= 9
            /\ res.ErrorCode = lastIn[6] + 256 * lastIn[7]
            /\ res.SQLStateMarker = <<lastIn[8]>>
            /\ res.SQLState = SubSeq(lastIn, 9, 13)
            /\ res.ErrorMessage = SubSeq(lastIn, 14, Len(lastIn))
            /\ ret = ServerErr(res.ErrorCode, res.ErrorMessage)
            /\ result = "error" /\ pc = "return")
    /\ [][res.kind = "Err" => wire' = wire /\ pc' = pc]_vars

\* The server's Error packet with the longest message has been decoded.
C9_Witness ==
    /\ res.kind = "Err" /\ Len(lastIn) = 4 + packetHeader.Length
    /\ res.ErrorCode = 1045 /\ res.SQLStateMarker = <<35>>
    /\ res.ErrorMessage = Msg(MaxMsgLen) /\ MaxMsgLen > 0
    /\ result = "error"

\* C10: when getPacketHeader returns without error it has taken exactly 5
\* bytes from the transport, the cursor is 0 and the header of those bytes is
\* the decoding context.
C10_AsStated ==
    HeaderReturnedNil =>
        /\ Len(lastIn) = 5
        /\ scanPos = 0
        /\ packetHeader = [set |-> TRUE,
                           Length |-> lastIn[1] + 256 * lastIn[2] + 65536 * lastIn[3],
                           SequenceID |-> lastIn[4], Status |-> lastIn[5]]

\* C11: when dialing fails Open returns that error at once: it reads no
\* handshake, writes no packet and takes no further step.
C11_AsStated ==
    ret = DialErr =>
        /\ pc = "return" /\ result = "error"
        /\ rdCount = 0 /\ wire = <<>>

\* C12: Open gets past authentication, to the reset of the counter and the
\* registration command, only if the reply to the handshake response was an
\* OK or EOF packet or an AuthMoreData packet saying fast-auth-success.
C12_AsStated ==
    (result = "running" /\ pc \in {"sequenceID=0 (1)", "registerAsSlave"}) =>
        \/ packetHeader.Status \in {StatusOK, StatusEOF}
        \/ packetHeader.Status = StatusAuth /\ mdData = "SHA2_FAST_AUTH_SUCCESS"

\* ---------------------------------------------------------------- Codec
\* C13: encLenEncInt(v) is one byte for v < 0xFB, 0xFC and 2 bytes for
\* v < 0x10000, 0xFD and 3 bytes for v < 0x1000000, and 0xFE and 8 bytes for
\* every other v, the bytes little-endian.
C13_AsStated ==
    call.fn = "encLenEncInt" =>
        call.bytes =
            IF call.v < 251 THEN <<call.v>>
            ELSE IF call.v < 65536 THEN <<252, call.v % 256, call.v \div 256>>
            ELSE IF call.v < 16777216
            THEN <<253, call.v % 256, (call.v \div 256) % 256, call.v \div 65536>>
            ELSE <<254, call.v % 256, (call.v \div 256) % 256,
                   (call.v \div 65536) % 256, call.v \div 16777216, 0, 0, 0, 0>>

\* C14: decLenEncInt reading the bytes that encLenEncInt(v) produced returns
\* v and consumes exactly those bytes.
C14_AsStated ==
    call.fn = "decLenEncInt" =>
        /\ call.st = "ok" /\ call.out = call.v
        /\ lastIn = call.bytes /\ rx = NextField /\ scanPos = Len(call.bytes)

\* v mod 2^(8n), for v below 2^31.
ModWidth(v, n) == IF n >= 4 THEN v ELSE v % Pow256(n)

\* C15: decFixedInt reading the n bytes of encFixedLenInt(v, n) returns
\* v mod 2^(8n), consumes exactly those n bytes and advances the cursor by n.
C15_FixedIntRoundTrip ==
    call.fn = "decFixedInt" =>
        /\ call.n \in FixedWidths
        /\ call.st = "ok" /\ call.out = ModWidth(call.v, call.n)
        /\ lastIn = call.bytes /\ Len(lastIn) = call.n
        /\ rx = NextField /\ scanPos = call.n

\* A value of three bytes has gone through two bytes and come back cut.
C15_Witness ==
    /\ call.fn = "decFixedInt" /\ call.n = 2 /\ call.v = 65794
    /\ call.bytes = <<2, 1>> /\ call.out = 258 /\ scanPos = 2

\* C16: for a struct of k boolean fields, 1 <= k <= 64, structToBitmask
\* returns 1, 2, 4 or 8 bytes (the least of these that holds k bits) in which
\* bit i, little-endian, is set exactly when field i is true, and
\* bitmaskToStruct of those bytes gives the same assignment back.
C16_BitmaskRoundTrip ==
    call.fn \in {"structToBitmask", "bitmaskToStruct"} =>
        /\ call.n = Len(call.v) /\ call.n >= 1 /\ call.n <= 64
        /\ Len(call.bytes) = (IF call.n <= 8 THEN 1 ELSE IF call.n <= 16 THEN 2
                              ELSE IF call.n <= 32 THEN 4 ELSE 8)
        /\ \A i \in 0..(8 * Len(call.bytes) - 1) :
             ((call.bytes[(i \div 8) + 1] \div 2^(i % 8)) % 2 = 1)
                <=> (i < call.n /\ call.v[i + 1])
        /\ call.fn = "bitmaskToStruct" => call.st = "ok" /\ call.out = call.v

\* A struct of 64 fields with the last one true has made the round trip.
C16_Witness ==
    /\ call.fn = "bitmaskToStruct" /\ call.n = 64 /\ call.v[64] /\ ~call.v[1]
    /\ Len(call.bytes) = 8 /\ call.bytes[8] >= 128
    /\ call.out = call.v

\* C17: with either plugin an empty password gives an empty auth response,
\* and a password that is not empty gives a response of the width of the
\* hash: 20 bytes for mysql_native_password, 32 for caching_sha2_password.
C17_AsStated ==
    call.fn = "authenticate" =>
        Len(call.ar) = (IF call.pass = <<>> THEN 0
                        ELSE IF call.plugin = "mysql_native_password" THEN 20
                        ELSE 32)

\* C18: authenticate appends the auth response to the accumulator in one
\* format: its length as a length-encoded integer and the bytes if
\* PluginAuthLenEncClientData is set; else its length in one byte and the
\* bytes if SecureConnection is set; else the bytes and a null byte; and
\* AuthResponseLength is the number of bytes of the response.
C18_AuthResponseFormat ==
    call.fn = "authenticate" =>
        /\ result = "running" /\ err = NoErr /\ ~writeBuf.nil
        /\ Len(call.ar) < 251
        /\ writeBuf.b = call.before \o
              (IF call.flags.PluginAuthLenEncClientData \/ call.flags.SecureConnection
               THEN <<Len(call.ar)>> \o call.ar
               ELSE call.ar \o <<0>>)
        /\ HandshakeResponse.AuthResponseLength = Len(call.ar)

\* A response of 32 bytes has been appended behind its length.
C18_Witness ==
    /\ call.fn = "authenticate" /\ call.flags.PluginAuthLenEncClientData
    /\ Len(call.ar) = 32 /\ call.before # <<>>
    /\ writeBuf.b = call.before \o <<32>> \o call.ar
    /\ HandshakeResponse.AuthResponseLength = 32

\* ------------------------------------------------------------ read side
\* C19: whenever readPacket returns without error for a packet that the
\* transport delivered in full, all of its payload has been consumed: the
\* cursor is header.Length - 1 and the next read starts at the next header.
C19_AsStated ==
    (ReadReturnedNil /\ Len(lastIn) >= 5
        /\ Len(lastIn) + Len(rx) >= 4 + packetHeader.Length) =>
        /\ scanPos = packetHeader.Length - 1
        /\ Len(lastIn) = 4 + packetHeader.Length

\* C20: the cursor never passes header.Length - 1 while a packet is decoded,
\* and header.Length - 1 - cursor never wraps around (a wrapped count read
\* from a closed transport never ends).
C20_AsStated ==
    /\ result # "hang"
    /\ (packetHeader.set /\ pc \notin {"readPacket1.switch", "readPacket2.switch"}) =>
          /\ packetHeader.Length >= 1
          /\ scanPos <= packetHeader.Length - 1

\* ----------------------------------------------------------- write side
\* C21: a packet handed to Flush takes one sequence number and is framed
\* once, also when the transport write fails: after a Flush that returns a
\* transport error, and after the caller's second Flush on that error, the
\* counter has advanced by at most one and the accumulator is the payload as
\* it was handed over, with no header in front of it.
C21_AsStated ==
    [][(ret'.kind = "transport" /\ op' \in {"Flush", "writeAuthSwitchPacket"}) =>
          /\ sequenceID' <= sequenceID + 1
          /\ op' = "Flush" => writeBuf' = writeBuf]_vars

\* C22: no accumulator operation and no Flush crashes when the accumulator
\* is absent: each put creates it, and Flush gets by without it.
C22_AsStated ==
    [][(pc = "api" /\ result = "running" /\ writeBuf.nil) =>
          result' = "running"]_vars

====
